---- MODULE Spec2Model ----
(* ISO/IEC 27001 audit compliance tool (src/app.py): the control catalogue,  *)
(* the in-memory interaction log, the completion client, and the four JSON   *)
(* handlers get_controls, assess_control, chat and gap_analysis.             *)
EXTENDS Integers, Sequences, FiniteSets, TLC

VARIABLES GROQ_API_KEY, client, ISO_CONTROLS, audit_data, last, threads

vars == <<GROQ_API_KEY, client, ISO_CONTROLS, audit_data, last, threads>>

(* ------------------------------ bounds ---------------------------------- *)
\* total number of records the two logs may hold together
MaxLog == 2
\* number of request threads the server runs at once
NumThreads == 3

(* --------------------------- Python values ------------------------------ *)
PyStr(s) == [type |-> "str", val |-> s]
PyNone == [type |-> "NoneType", val |-> "None"]
PyList == [type |-> "list", val |-> "[]"]

\* hash(v) succeeds: str and None are hashable, list is not
Hashable(v) == v.type # "list"

\* truthiness of os.environ.get("GROQ_API_KEY")
Truthy(v) == v.type = "str" /\ v.val # ""

(* ----------------------------- catalogue -------------------------------- *)
InitialControls ==
  << [id |-> "A.5.1", name |-> "Policies for information security", category |-> "Organizational"],
     [id |-> "A.5.2", name |-> "Information security roles and responsibilities", category |-> "Organizational"],
     [id |-> "A.6.1", name |-> "Screening", category |-> "People"],
     [id |-> "A.6.2", name |-> "Terms and conditions of employment", category |-> "People"],
     [id |-> "A.7.1", name |-> "Physical security perimeters", category |-> "Physical"],
     [id |-> "A.7.2", name |-> "Physical entry", category |-> "Physical"],
     [id |-> "A.8.1", name |-> "User endpoint devices", category |-> "Technological"],
     [id |-> "A.8.2", name |-> "Privileged access rights", category |-> "Technological"],
     [id |-> "A.8.3", name |-> "Information access restriction", category |-> "Technological"] >>

\* keys of a catalogue (an insertion-ordered dict held as a sequence of entries)
Keys(cat) == {cat[i].id : i \in 1..Len(cat)}

\* `control_id in cat` for a hashable control_id
InCatalogue(cat, v) == v.type = "str" /\ v.val \in Keys(cat)

(* --------------------------- request inputs ----------------------------- *)
\* control_id values a request may carry: the first, a middle and the last
\* catalogue key, two strings that are no key, a missing field (None) and an
\* unhashable JSON array
RequestedKeys == {"A.5.1", "A.8.1", "A.8.3"}

ControlIdValues ==
  {PyStr(k) : k \in RequestedKeys} \cup {PyStr("Z.9.9"), PyStr("Z.0.0"), PyNone, PyList}

MessageValues == {PyStr("What is A.8.2?"), PyNone}

\* the description only enters the prompt text; no branch reads it
DescriptionValues == {PyStr("We review policies yearly")}

\* what request.json yields: a dict, None (JSON null), a list (JSON array),
\* or a raised BadRequest (kind "malformed")
NonDictBody(k) == [kind |-> k, control_id |-> PyNone, message |-> PyNone, description |-> PyNone]

AssessBodies ==
  [kind : {"dict"}, control_id : ControlIdValues, message : {PyNone}, description : {PyNone}]
    \cup {NonDictBody("null"), NonDictBody("list"), NonDictBody("malformed")}

ChatBodies ==
  [kind : {"dict"}, control_id : {PyNone}, message : MessageValues, description : {PyNone}]
    \cup {NonDictBody("null"), NonDictBody("list"), NonDictBody("malformed")}

GapBodies ==
  [kind : {"dict"}, control_id : ControlIdValues, message : {PyNone}, description : DescriptionValues]
    \cup {NonDictBody("null"), NonDictBody("list"), NonDictBody("malformed")}

NoBody == NonDictBody("none")

(* ------------------------ completion service ---------------------------- *)
Texts == {"text-1", "text-2"}

UpstreamErrors == {"Connection error.", "list index out of range"}

\* what client.chat.completions.create(...).choices[0].message.content does
\* on one call: yields a text or raises with a message
Completions ==
  [ok : {TRUE}, text : Texts, err : {""}] \cup [ok : {FALSE}, text : {""}, err : UpstreamErrors]

NoCompletion == [ok |-> FALSE, text |-> "", err |-> ""]

\* the instants datetime.now() may return; no handler reads a timestamp back
Instants == {"2026-01-01T00:00:00"}

\* datetime.now().isoformat()
isoformat(t) == <<"iso", t>>

(* ----------------------------- exceptions ------------------------------- *)
NoGetMsg(kind) ==
  IF kind = "null" THEN "'NoneType' object has no attribute 'get'"
  ELSE "'list' object has no attribute 'get'"

BadRequestMsg == "400 Bad Request: The browser (or proxy) sent a request that this server could not understand."

UnhashableMsg == "unhashable type: 'list'"

NoChatMsg == "'NoneType' object has no attribute 'chat'"

NotConfiguredMsg == "Groq API key not configured. Please set GROQ_API_KEY in .env file"

(* ------------------------------ responses ------------------------------- *)
\* jsonify({key: val}), status; val is kept as the parts of the string
Json(status, key, val, called) ==
  [status |-> status, key |-> key, val |-> val, called |-> called, escaped |-> FALSE]

\* an exception left the view function: the framework answers, not the handler
Escaped(status, msg) ==
  [status |-> status, key |-> "html", val |-> <<msg>>, called |-> FALSE, escaped |-> TRUE]

(* ------------------------------ handlers -------------------------------- *)
\* variant of controls_list: enumerates the catalogue back to front
controls_list_reversed(cat) == [i \in 1..Len(cat) |-> cat[Len(cat) + 1 - i]]

\* GET /api/controls: [{"id": k, **v} for k, v in ISO_CONTROLS.items()]
controls_list(cat) == [i \in 1..Len(cat) |-> cat[i]]

\* variant of assess_response: the catalogue membership test is missing
assess_response_no_validation(cl, key, cat, data, completion) ==
  IF data.kind = "malformed" THEN
    Json(500, "error", <<"Error in assess_control: ", BadRequestMsg>>, FALSE)
  ELSE IF data.kind # "dict" THEN
    Json(500, "error", <<"Error in assess_control: ", NoGetMsg(data.kind)>>, FALSE)
  ELSE IF ~Hashable(data.control_id) THEN
    Json(500, "error", <<"Error in assess_control: ", UnhashableMsg>>, FALSE)
  ELSE IF cl = "None" \/ ~Truthy(key) THEN
    Json(500, "error", <<NotConfiguredMsg>>, FALSE)
  ELSE IF ~completion.ok THEN
    Json(500, "error", <<"Error in assess_control: ", completion.err>>, TRUE)
  ELSE
    Json(200, "assessment", <<completion.text>>, TRUE)

\* variant of assess_response: the client check precedes the membership test
assess_response_config_first(cl, key, cat, data, completion) ==
  IF data.kind = "malformed" THEN
    Json(500, "error", <<"Error in assess_control: ", BadRequestMsg>>, FALSE)
  ELSE IF data.kind # "dict" THEN
    Json(500, "error", <<"Error in assess_control: ", NoGetMsg(data.kind)>>, FALSE)
  ELSE IF cl = "None" \/ ~Truthy(key) THEN
    Json(500, "error", <<NotConfiguredMsg>>, FALSE)
  ELSE IF ~Hashable(data.control_id) THEN
    Json(500, "error", <<"Error in assess_control: ", UnhashableMsg>>, FALSE)
  ELSE IF ~InCatalogue(cat, data.control_id) THEN
    Json(400, "error", <<"Invalid control ID: ", data.control_id.val>>, FALSE)
  ELSE IF ~completion.ok THEN
    Json(500, "error", <<"Error in assess_control: ", completion.err>>, TRUE)
  ELSE
    Json(200, "assessment", <<completion.text>>, TRUE)

\* POST /api/assess: the response for request body `data` when the completion
\* call, if made, behaves as `completion`
assess_response(cl, key, cat, data, completion) ==
  IF data.kind = "malformed" THEN
    Json(500, "error", <<"Error in assess_control: ", BadRequestMsg>>, FALSE)
  ELSE IF data.kind # "dict" THEN
    Json(500, "error", <<"Error in assess_control: ", NoGetMsg(data.kind)>>, FALSE)
  ELSE IF ~Hashable(data.control_id) THEN
    Json(500, "error", <<"Error in assess_control: ", UnhashableMsg>>, FALSE)
  ELSE IF ~InCatalogue(cat, data.control_id) THEN
    Json(400, "error", <<"Invalid control ID: ", data.control_id.val>>, FALSE)
  ELSE IF cl = "None" \/ ~Truthy(key) THEN
    Json(500, "error", <<NotConfiguredMsg>>, FALSE)
  ELSE IF ~completion.ok THEN
    Json(500, "error", <<"Error in assess_control: ", completion.err>>, TRUE)
  ELSE
    Json(200, "assessment", <<completion.text>>, TRUE)

\* POST /api/chat
chat_response(cl, data, completion) ==
  IF data.kind = "malformed" THEN Escaped(400, BadRequestMsg)
  ELSE IF data.kind # "dict" THEN Escaped(500, NoGetMsg(data.kind))
  ELSE IF cl = "None" THEN Json(500, "error", <<NoChatMsg>>, FALSE)
  ELSE IF ~completion.ok THEN Json(500, "error", <<completion.err>>, TRUE)
  ELSE Json(200, "response", <<completion.text>>, TRUE)

\* variant of gap_response: the catalogue membership test is missing
gap_response_no_validation(cl, cat, data, completion) ==
  IF data.kind = "malformed" THEN Escaped(400, BadRequestMsg)
  ELSE IF data.kind # "dict" THEN Escaped(500, NoGetMsg(data.kind))
  ELSE IF cl = "None" THEN Json(500, "error", <<NoChatMsg>>, FALSE)
  ELSE IF ~completion.ok THEN Json(500, "error", <<completion.err>>, TRUE)
  ELSE Json(200, "analysis", <<completion.text>>, TRUE)

\* POST /api/gap-analysis
gap_response(cl, cat, data, completion) ==
  IF data.kind = "malformed" THEN Escaped(400, BadRequestMsg)
  ELSE IF data.kind # "dict" THEN Escaped(500, NoGetMsg(data.kind))
  ELSE IF ~Hashable(data.control_id) THEN Escaped(500, UnhashableMsg)
  ELSE IF ~InCatalogue(cat, data.control_id) THEN
    Json(400, "error", <<"Invalid control ID">>, FALSE)
  ELSE IF cl = "None" THEN Json(500, "error", <<NoChatMsg>>, FALSE)
  ELSE IF ~completion.ok THEN Json(500, "error", <<completion.err>>, TRUE)
  ELSE Json(200, "analysis", <<completion.text>>, TRUE)

\* variant of assessment_record: a fixed catalogue key is stored, not the
\* requested one
assessment_record_first_key(data, completion, t) ==
  [control_id |-> PyStr("A.5.1"), timestamp |-> isoformat(t), assessment |-> completion.text]

\* audit_data["assessments"].append({...})
assessment_record(data, completion, t) ==
  [control_id |-> data.control_id, timestamp |-> isoformat(t), assessment |-> completion.text]

\* variant of chat_turn: user and assistant texts are swapped
chat_turn_swapped(data, completion, t) ==
  [timestamp |-> isoformat(t), user |-> PyStr(completion.text), assistant |-> data.message.val]

\* audit_data["chat_history"].append({...})
chat_turn(data, completion, t) ==
  [timestamp |-> isoformat(t), user |-> data.message, assistant |-> completion.text]

LogSize == Len(audit_data.assessments) + Len(audit_data.chat_history)

\* the request just handled and the response it got
Handled(h, data, completion, r, ctl) ==
  [handler |-> h, data |-> data, completion |-> completion, status |-> r.status,
   key |-> r.key, val |-> r.val, called |-> r.called, escaped |-> r.escaped,
   controls |-> ctl]

(* ------------------------------- state ---------------------------------- *)
KeyValues == {PyNone, PyStr(""), PyStr("gsk_key")}

\* the request threads of the server, one per request in flight
Threads == 1..NumThreads

\* a thread that has not taken its request yet
Idle == [pc |-> "idle", req |-> Handled("none", NoBody, NoCompletion, Json(0, "none", <<>>, FALSE), <<>>)]

Init ==
  /\ GROQ_API_KEY \in KeyValues
  /\ client = IF Truthy(GROQ_API_KEY) THEN "Groq" ELSE "None"
  /\ ISO_CONTROLS = InitialControls
  /\ audit_data = [assessments |-> <<>>, chat_history |-> <<>>]
  /\ last = Handled("none", NoBody, NoCompletion, Json(0, "none", <<>>, FALSE), <<>>)
  /\ threads = [t \in Threads |-> Idle]

get_controls ==
  /\ last' = Handled("controls", NoBody, NoCompletion,
                     Json(200, "controls", <<>>, FALSE), controls_list(ISO_CONTROLS))
  /\ UNCHANGED <<GROQ_API_KEY, client, ISO_CONTROLS, audit_data, threads>>

\* variant of assess_control: the newest record is put at the head of the log
assess_control_prepend ==
  \E data \in AssessBodies, completion \in Completions, t \in Instants :
    LET r == assess_response(client, GROQ_API_KEY, ISO_CONTROLS, data, completion) IN
      /\ r.status = 200 => LogSize < MaxLog
      /\ audit_data' =
           IF r.status = 200
           THEN [audit_data EXCEPT !.assessments =
                   <<assessment_record(data, completion, t)>> \o @]
           ELSE audit_data
      /\ last' = Handled("assess", data, IF r.called THEN completion ELSE NoCompletion, r, <<>>)
      /\ UNCHANGED <<GROQ_API_KEY, client, ISO_CONTROLS, threads>>

assess_control ==
  \E data \in AssessBodies, completion \in Completions, t \in Instants :
    LET r == assess_response(client, GROQ_API_KEY, ISO_CONTROLS, data, completion) IN
      /\ r.status = 200 => LogSize < MaxLog
      /\ audit_data' =
           IF r.status = 200
           THEN [audit_data EXCEPT !.assessments =
                   Append(@, assessment_record(data, completion, t))]
           ELSE audit_data
      /\ last' = Handled("assess", data, IF r.called THEN completion ELSE NoCompletion, r, <<>>)
      /\ UNCHANGED <<GROQ_API_KEY, client, ISO_CONTROLS, threads>>

\* variant of chat: the turn is logged before the completion call is made
chat_logging_failures ==
  \E data \in ChatBodies, completion \in Completions, t \in Instants :
    LET r == chat_response(client, data, completion) IN
      /\ r.called => LogSize < MaxLog
      /\ audit_data' =
           IF r.called
           THEN [audit_data EXCEPT !.chat_history =
                   Append(@, chat_turn(data, completion, t))]
           ELSE audit_data
      /\ last' = Handled("chat", data, IF r.called THEN completion ELSE NoCompletion, r, <<>>)
      /\ UNCHANGED <<GROQ_API_KEY, client, ISO_CONTROLS, threads>>

chat ==
  \E data \in ChatBodies, completion \in Completions, t \in Instants :
    LET r == chat_response(client, data, completion) IN
      /\ r.status = 200 => LogSize < MaxLog
      /\ audit_data' =
           IF r.status = 200
           THEN [audit_data EXCEPT !.chat_history =
                   Append(@, chat_turn(data, completion, t))]
           ELSE audit_data
      /\ last' = Handled("chat", data, IF r.called THEN completion ELSE NoCompletion, r, <<>>)
      /\ UNCHANGED <<GROQ_API_KEY, client, ISO_CONTROLS, threads>>

\* variant of gap_analysis: a successful analysis is logged like an assessment
gap_analysis_logging ==
  \E data \in GapBodies, completion \in Completions, t \in Instants :
    LET r == gap_response(client, ISO_CONTROLS, data, completion) IN
      /\ r.status = 200 => LogSize < MaxLog
      /\ audit_data' =
           IF r.status = 200
           THEN [audit_data EXCEPT !.assessments =
                   Append(@, assessment_record(data, completion, t))]
           ELSE audit_data
      /\ last' = Handled("gap-analysis", data, IF r.called THEN completion ELSE NoCompletion, r, <<>>)
      /\ UNCHANGED <<GROQ_API_KEY, client, ISO_CONTROLS, threads>>

gap_analysis ==
  \E data \in GapBodies, completion \in Completions :
    LET r == gap_response(client, ISO_CONTROLS, data, completion) IN
      /\ last' = Handled("gap-analysis", data, IF r.called THEN completion ELSE NoCompletion, r, <<>>)
      /\ UNCHANGED <<GROQ_API_KEY, client, ISO_CONTROLS, audit_data, threads>>

\* one request at a time, each handled from start to end
Next == get_controls \/ assess_control \/ chat \/ gap_analysis

Spec == Init /\ [][Next]_vars

TypeOK ==
  /\ client \in {"None", "Groq"}
  /\ LogSize <= MaxLog

(* ------------------------ concurrent requests --------------------------- *)
\* app.run(debug=True, port=5000) serves every request on a thread of its
\* own. A handler touches shared state once, in list.append, which the
\* interpreter runs as one indivisible step; the rest of a handler works on
\* its own locals. A thread therefore takes two steps: up to the completion
\* call (or to an early return), and from the call's return to the response.

\* request bodies sent while other requests are in flight
ConcAssessBodies ==
  {b \in AssessBodies :
     \/ b.kind = "null"
     \/ b.kind = "dict" /\ b.control_id \in {PyStr("A.8.1"), PyStr("Z.9.9")}}

ConcChatBodies ==
  {b \in ChatBodies :
     \/ b.kind = "null"
     \/ b.kind = "dict" /\ b.message = PyStr("What is A.8.2?")}

\* a thread waiting in client.chat.completions.create(...)
Calling(h, data) ==
  [pc |-> "calling", req |-> Handled(h, data, NoCompletion, Json(0, "none", <<>>, TRUE), <<>>)]

\* a thread that has sent its response
Done(h, data, completion, r) ==
  [pc |-> "done", req |-> Handled(h, data, IF r.called THEN completion ELSE NoCompletion, r, <<>>)]

\* assess_control from the request to the completion call or an early return
assess_begin(t) ==
  /\ threads[t].pc = "idle"
  /\ \E data \in ConcAssessBodies :
       LET r == assess_response(client, GROQ_API_KEY, ISO_CONTROLS, data, NoCompletion) IN
         threads' = [threads EXCEPT ![t] =
                       IF r.called THEN Calling("assess", data)
                       ELSE Done("assess", data, NoCompletion, r)]
  /\ UNCHANGED <<GROQ_API_KEY, client, ISO_CONTROLS, audit_data, last>>

\* variant of assess_finish: the record is stored over the newest one
assess_finish_overwrite(t) ==
  /\ threads[t].pc = "calling"
  /\ threads[t].req.handler = "assess"
  /\ \E completion \in Completions, now \in Instants :
       LET data == threads[t].req.data
           r == assess_response(client, GROQ_API_KEY, ISO_CONTROLS, data, completion) IN
         /\ audit_data' =
              IF r.status # 200 THEN audit_data
              ELSE IF audit_data.assessments = <<>>
              THEN [audit_data EXCEPT !.assessments =
                      Append(@, assessment_record(data, completion, now))]
              ELSE [audit_data EXCEPT !.assessments[Len(audit_data.assessments)] =
                      assessment_record(data, completion, now)]
         /\ threads' = [threads EXCEPT ![t] = Done("assess", data, completion, r)]
  /\ UNCHANGED <<GROQ_API_KEY, client, ISO_CONTROLS, last>>

\* assess_control from the return of the completion call to the response
assess_finish(t) ==
  /\ threads[t].pc = "calling"
  /\ threads[t].req.handler = "assess"
  /\ \E completion \in Completions, now \in Instants :
       LET data == threads[t].req.data
           r == assess_response(client, GROQ_API_KEY, ISO_CONTROLS, data, completion) IN
         /\ audit_data' =
              IF r.status = 200
              THEN [audit_data EXCEPT !.assessments =
                      Append(@, assessment_record(data, completion, now))]
              ELSE audit_data
         /\ threads' = [threads EXCEPT ![t] = Done("assess", data, completion, r)]
  /\ UNCHANGED <<GROQ_API_KEY, client, ISO_CONTROLS, last>>

\* chat from the request to the completion call or an escaping exception
chat_begin(t) ==
  /\ threads[t].pc = "idle"
  /\ \E data \in ConcChatBodies :
       LET r == chat_response(client, data, NoCompletion) IN
         threads' = [threads EXCEPT ![t] =
                       IF r.called THEN Calling("chat", data)
                       ELSE Done("chat", data, NoCompletion, r)]
  /\ UNCHANGED <<GROQ_API_KEY, client, ISO_CONTROLS, audit_data, last>>

\* chat from the return of the completion call to the response
chat_finish(t) ==
  /\ threads[t].pc = "calling"
  /\ threads[t].req.handler = "chat"
  /\ \E completion \in Completions, now \in Instants :
       LET data == threads[t].req.data
           r == chat_response(client, data, completion) IN
         /\ audit_data' =
              IF r.status = 200
              THEN [audit_data EXCEPT !.chat_history =
                      Append(@, chat_turn(data, completion, now))]
              ELSE audit_data
         /\ threads' = [threads EXCEPT ![t] = Done("chat", data, completion, r)]
  /\ UNCHANGED <<GROQ_API_KEY, client, ISO_CONTROLS, last>>

ConcNext ==
  \E t \in Threads :
    assess_begin(t) \/ assess_finish(t) \/ chat_begin(t) \/ chat_finish(t)

\* requests served concurrently, at most NumThreads of them
ConcSpec == Init /\ [][ConcNext]_vars

(* ------------------------------ properties ------------------------------ *)
\* the request handled last carried a JSON object as its body
DictRequest(l, h) == l.handler = h /\ l.data.kind = "dict"

\* the request handled last got the text of a completion call that succeeded
GotText(l) == l.called /\ l.completion.ok

Configured == client # "None" /\ Truthy(GROQ_API_KEY)

\* C1: an assess request for a catalogue key under a configured client
\* invokes the completion service, and when that call yields a text the
\* response is 200 {assessment: text}, the assessments log grows by exactly
\* one record holding the requested id and that text, and the chat log is
\* unchanged.
C1_AssessSuccess ==
  [][(/\ DictRequest(last', "assess")
      /\ InCatalogue(InitialControls, last'.data.control_id)
      /\ Configured)
     => /\ last'.called
        /\ last'.completion.ok =>
             /\ last'.status = 200
             /\ last'.key = "assessment"
             /\ last'.val = <<last'.completion.text>>
             /\ Len(audit_data'.assessments) = Len(audit_data.assessments) + 1
             /\ SubSeq(audit_data'.assessments, 1, Len(audit_data.assessments))
                  = audit_data.assessments
             /\ audit_data'.assessments[Len(audit_data'.assessments)].control_id
                  = last'.data.control_id
             /\ audit_data'.assessments[Len(audit_data'.assessments)].assessment
                  = last'.completion.text
             /\ audit_data'.chat_history = audit_data.chat_history]_vars

C1_Witness ==
  /\ DictRequest(last, "assess")
  /\ GotText(last)
  /\ last.status = 200
  /\ Len(audit_data.assessments) = 2
  /\ audit_data.assessments[2].control_id = PyStr("A.8.1")

\* C2: an assess request whose control id is no catalogue key (another
\* string, or a missing field) gets 400 with an error field, makes no
\* completion call, and leaves both logs as they were.
C2_AssessInvalidId ==
  [][(/\ DictRequest(last', "assess")
      /\ Hashable(last'.data.control_id)
      /\ ~InCatalogue(InitialControls, last'.data.control_id))
     => /\ last'.status = 400
        /\ last'.key = "error"
        /\ ~last'.called
        /\ audit_data' = audit_data]_vars

C2_Witness ==
  /\ DictRequest(last, "assess")
  /\ last.data.control_id = PyStr("Z.9.9")
  /\ last.status = 400
  /\ Configured
  /\ LogSize > 0

\* C3 as stated: with the client disabled, every assess request gets 500
\* with the configuration message, whether or not its id is a catalogue key.
C3_DisabledAlways500 ==
  (/\ client = "None"
   /\ DictRequest(last, "assess")
   /\ Hashable(last.data.control_id))
  => /\ last.status = 500
     /\ last.val = <<NotConfiguredMsg>>

\* C3 amended: with the client disabled, an assess request for a catalogue
\* key gets 500 with the configuration message and no completion call; one
\* for an id that is no catalogue key gets 400 with the invalid-id message.
C3_DisabledAfterValidation ==
  (/\ client = "None"
   /\ DictRequest(last, "assess")
   /\ Hashable(last.data.control_id))
  => IF InCatalogue(InitialControls, last.data.control_id)
     THEN /\ last.status = 500
          /\ last.key = "error"
          /\ last.val = <<NotConfiguredMsg>>
          /\ ~last.called
     ELSE /\ last.status = 400
          /\ last.key = "error"
          /\ last.val = <<"Invalid control ID: ", last.data.control_id.val>>
          /\ ~last.called

C3_Witness ==
  /\ client = "None"
  /\ DictRequest(last, "assess")
  /\ last.data.control_id = PyStr("A.8.1")
  /\ last.status = 500

\* C4: a chat request under a configured client invokes the completion
\* service, and when that call yields a text the response is 200
\* {response: text}, the chat log grows by exactly one turn holding the
\* submitted message and that text, and the assessments log is unchanged.
C4_ChatSuccess ==
  [][(DictRequest(last', "chat") /\ Configured)
     => /\ last'.called
        /\ last'.completion.ok =>
             /\ last'.status = 200
             /\ last'.key = "response"
             /\ last'.val = <<last'.completion.text>>
             /\ Len(audit_data'.chat_history) = Len(audit_data.chat_history) + 1
             /\ SubSeq(audit_data'.chat_history, 1, Len(audit_data.chat_history))
                  = audit_data.chat_history
             /\ audit_data'.chat_history[Len(audit_data'.chat_history)].user
                  = last'.data.message
             /\ audit_data'.chat_history[Len(audit_data'.chat_history)].assistant
                  = last'.completion.text
             /\ audit_data'.assessments = audit_data.assessments]_vars

C4_Witness ==
  /\ DictRequest(last, "chat")
  /\ GotText(last)
  /\ last.status = 200
  /\ last.data.message = PyStr("What is A.8.2?")
  /\ Len(audit_data.chat_history) = 2

\* C5: a gap-analysis request, whatever its outcome, leaves the assessments
\* log and the chat log as they were.
C5_GapAnalysisKeepsLogs ==
  [][last'.handler = "gap-analysis" => audit_data' = audit_data]_vars

C5_Witness ==
  /\ DictRequest(last, "gap-analysis")
  /\ GotText(last)
  /\ last.status = 200
  /\ Len(audit_data.assessments) > 0
  /\ Len(audit_data.chat_history) > 0

\* C6: a gap-analysis request for a catalogue key under a configured client
\* invokes the completion service and, when that call yields a text, gets
\* 200 {analysis: text}; one for an id that is no catalogue key gets 400
\* with an error field and makes no completion call.
C6_GapAnalysisOutcome ==
  (DictRequest(last, "gap-analysis") /\ Hashable(last.data.control_id))
  => IF InCatalogue(InitialControls, last.data.control_id)
     THEN Configured =>
            /\ last.called
            /\ last.completion.ok =>
                 /\ last.status = 200
                 /\ last.key = "analysis"
                 /\ last.val = <<last.completion.text>>
     ELSE /\ last.status = 400
          /\ last.key = "error"
          /\ ~last.called

C6_Witness ==
  /\ DictRequest(last, "gap-analysis")
  /\ last.data.control_id = PyStr("Z.0.0")
  /\ last.status = 400
  /\ Configured

\* C7: every record of the assessments log has a control_id that is a key
\* of the control catalogue.
C7_RecordIdsInCatalogue ==
  \A i \in 1..Len(audit_data.assessments) :
    InCatalogue(ISO_CONTROLS, audit_data.assessments[i].control_id)

C7_Witness ==
  /\ Len(audit_data.assessments) = 2
  /\ DictRequest(last, "assess")
  /\ last.status = 400

\* C8: the catalogue always holds its nine initial entries, and every
\* GET /api/controls answers with exactly those nine, each once, in
\* insertion order.
C8_CatalogueFixed ==
  /\ ISO_CONTROLS = InitialControls
  /\ last.handler = "controls" =>
       /\ last.status = 200
       /\ Len(last.controls) = 9
       /\ [i \in 1..9 |-> last.controls[i].id]
            = <<"A.5.1", "A.5.2", "A.6.1", "A.6.2", "A.7.1", "A.7.2", "A.8.1", "A.8.2", "A.8.3">>
       /\ last.controls = InitialControls

C8_Witness ==
  /\ last.handler = "controls"
  /\ Len(audit_data.assessments) > 0
  /\ Len(audit_data.chat_history) > 0

\* C9 as stated: in assess, chat and gap-analysis no exception leaves the
\* handler; every failure is answered by the handler with a JSON error.
C9_NoExceptionEscapes ==
  last.handler \in {"assess", "chat", "gap-analysis"} =>
    /\ ~last.escaped
    /\ last.status # 200 => last.key = "error"

\* C10 as stated: with the client disabled, every assess, chat and
\* gap-analysis request that reaches the completion step makes no call, gets
\* 500 with the configuration message, and the logs stay as they were.
C10_DisabledIsConfigurationError ==
  (/\ client = "None"
   /\ \/ DictRequest(last, "chat")
      \/ /\ DictRequest(last, "assess") \/ DictRequest(last, "gap-analysis")
         /\ InCatalogue(InitialControls, last.data.control_id))
  => /\ ~last.called
     /\ last.status = 500
     /\ last.key = "error"
     /\ last.val = <<NotConfiguredMsg>>
     /\ LogSize = 0

\* the completion call of the request handled last was made and raised
CallFailed(l) == l.called /\ ~l.completion.ok

\* C12: when the completion call of an assess or chat request raises, the
\* handler answers 500 with an error field that carries the upstream message
\* (after the prefix "Error in assess_control: " for assess, alone for chat),
\* and neither log changes.
C12_CallFailureKeepsLogs ==
  [][(last'.handler \in {"assess", "chat"} /\ CallFailed(last'))
     => /\ last'.status = 500
        /\ last'.key = "error"
        /\ last'.val = IF last'.handler = "assess"
                       THEN <<"Error in assess_control: ", last'.completion.err>>
                       ELSE <<last'.completion.err>>
        /\ audit_data' = audit_data]_vars

C12_Witness ==
  /\ DictRequest(last, "chat")
  /\ CallFailed(last)
  /\ last.status = 500
  /\ last.val = <<"Connection error.">>
  /\ Len(audit_data.assessments) > 0
  /\ Len(audit_data.chat_history) > 0

\* s is an initial segment of t
IsPrefix(s, t) == Len(s) <= Len(t) /\ SubSeq(t, 1, Len(s)) = s

\* C13: in every step each log of the earlier state is a prefix of the same
\* log in the later state: no record is changed, reordered or removed.
C13_LogsAppendOnly ==
  [][/\ IsPrefix(audit_data.assessments, audit_data'.assessments)
     /\ IsPrefix(audit_data.chat_history, audit_data'.chat_history)]_vars

C13_Witness ==
  /\ Len(audit_data.assessments) = 2
  /\ audit_data.assessments[1] # audit_data.assessments[2]
  /\ DictRequest(last, "assess")
  /\ last.status = 200

\* the threads whose request to handler h was answered with 200
Succeeded(h) ==
  {t \in Threads : threads[t].pc = "done" /\ threads[t].req.handler = h
                     /\ threads[t].req.status = 200}

\* the assessment record the request of thread t stands for
SameAssessment(rec, t) ==
  /\ rec.control_id = threads[t].req.data.control_id
  /\ rec.assessment = threads[t].req.completion.text

\* the chat turn the request of thread t stands for
SameTurn(rec, t) ==
  /\ rec.user = threads[t].req.data.message
  /\ rec.assistant = threads[t].req.completion.text

\* C11: under every interleaving of in-flight assess and chat requests the
\* assessments log holds exactly one complete record per assess request
\* answered with 200 and the chat log one complete turn per chat request
\* answered with 200 (none lost, doubled or partial), and no thread waits for
\* another: a thread that has a request can start on it and a thread whose
\* completion call returns can finish, whatever the other threads are doing.
C11_ConcurrentAppends ==
  /\ Len(audit_data.assessments) = Cardinality(Succeeded("assess"))
  /\ Len(audit_data.chat_history) = Cardinality(Succeeded("chat"))
  /\ \A t \in Succeeded("assess") :
       Cardinality({i \in 1..Len(audit_data.assessments) :
                      SameAssessment(audit_data.assessments[i], t)})
         = Cardinality({u \in Succeeded("assess") :
                          /\ threads[u].req.data = threads[t].req.data
                          /\ threads[u].req.completion = threads[t].req.completion})
  /\ \A t \in Succeeded("chat") :
       Cardinality({i \in 1..Len(audit_data.chat_history) :
                      SameTurn(audit_data.chat_history[i], t)})
         = Cardinality({u \in Succeeded("chat") :
                          /\ threads[u].req.data = threads[t].req.data
                          /\ threads[u].req.completion = threads[t].req.completion})
  /\ \A i \in 1..Len(audit_data.assessments) :
       /\ DOMAIN audit_data.assessments[i] = {"control_id", "timestamp", "assessment"}
       /\ audit_data.assessments[i].timestamp \in {isoformat(n) : n \in Instants}
  /\ \A i \in 1..Len(audit_data.chat_history) :
       /\ DOMAIN audit_data.chat_history[i] = {"timestamp", "user", "assistant"}
       /\ audit_data.chat_history[i].timestamp \in {isoformat(n) : n \in Instants}
  /\ \A t \in Threads :
       /\ threads[t].pc = "idle" => ENABLED assess_begin(t) /\ ENABLED chat_begin(t)
       /\ threads[t].pc = "calling" => ENABLED (assess_finish(t) \/ chat_finish(t))

C11_Witness ==
  /\ threads[1].pc = "calling"
  /\ threads[1].req.handler = "assess"
  /\ 2 \in Succeeded("assess")
  /\ 3 \in Succeeded("chat")
  /\ Len(audit_data.assessments) = 1
  /\ Len(audit_data.chat_history) = 1

====
